---- MODULE Spec2Model ----
(***************************************************************************)
(* Shared-watcher coordination of pnpm-injected-sync (`run` command).      *)
(*                                                                         *)
(* Several invocations of `pnpm-injected-sync run <cmd>` in one workspace  *)
(* coordinate through two files: the lock file (.pnpm-injected-sync.lock)  *)
(* and the client-list file (<lock>.clients).  Every invocation is a       *)
(* single-threaded event loop; its async functions are suspended at each   *)
(* `await`.  One action of this model is the completion of one awaited     *)
(* filesystem operation together with the synchronous code that follows it *)
(* up to the next `await`.                                                 *)
(*                                                                         *)
(* fs.promises.writeFile(lock, .., {flag:'wx'}) is an exclusive create     *)
(* followed by a write: between the two the lock file exists and is empty  *)
(* (unparsable).  Writes of the client-list file are taken as one step.    *)
(* The external collaborators (readModulesManifest, syncInjectedDeps) are  *)
(* assumed to return.  A tick of promotionCheckInterval or checkInterval   *)
(* is one step (the callback is called) and the completion of its first    *)
(* read is another; a timer does not tick again while its previous         *)
(* callback is still suspended.  Process identifiers are not reused.       *)
(*                                                                         *)
(* Time matters only for the debounce timers (SpecWatch): the clock moves  *)
(* in steps of TickMs, a timer runs when its delay has elapsed and before  *)
(* the clock moves on, and a timer whose delay elapsed in the past runs    *)
(* before the callback of a later change event (the timers phase of the    *)
(* event loop precedes its I/O callbacks).  A change event that arrives at *)
(* the very instant a timer falls due may run before or after it.          *)
(***************************************************************************)
EXTENDS Integers, Sequences, FiniteSets, TLC

\* ---------------------------------------------------------------- bounds
NumProcs == 2          \* invocations of `run` in the workspace (Spec)
MaxSignals == 1        \* termination signals delivered in the workspace (Spec)
MaxCrashes == 1        \* invocations killed without running any handler
SoloSignals == 2       \* termination signals delivered to the invocation of SpecSolo
MaxContenders == 5     \* invocations racing in acquireLock (SpecAcquire)
NumDirs == 2           \* injected dependency directories watched (SpecWatch)
NumFiles == 2          \* file names reported inside one directory (SpecWatch)
MaxEvents == 3         \* change events delivered by fs.watch (SpecWatch)
TickMs == 50           \* milliseconds by which one step of the clock advances

DebounceMs == 100      \* the delay of the debounce timer

Procs == 1..NumProcs
Contenders == 1..MaxContenders
SoloProcs == {1}
StalePid == 0          \* pid of an earlier invocation that was killed
Signals == {"SIGINT", "SIGTERM", "SIGHUP"}
NoCode == -1           \* JavaScript null: no exit code
ChildCodes == {2, NoCode}
Dirs == 1..NumDirs
FileNames == 1..NumFiles
NoName == 0            \* fs.watch reported the event with filename null
Entries == Dirs \X FileNames
Quiet == DebounceMs + TickMs   \* "more than the window ago", or never

VARIABLES
    lock,          \* the lock file: [st: absent | empty | rec, pid]
    clients,       \* the client-list file: [exists, list]
    injectedDeps,  \* TRUE iff the modules manifest lists injected deps
    inv,           \* per invocation: the variables of runCommand's closure
    env,           \* what the environment may still do: [signals, crashes]
    watch,         \* the watcher runtime's `state` in detail (SpecWatch)
    call           \* the registry calls made one after another (SpecRegistry)

vars == <<lock, clients, injectedDeps, inv, env, watch, call>>

NoLock == [st |-> "absent", pid |-> 0]
EmptyLock(p) == [st |-> "empty", pid |-> p]
LockRec(p) == [st |-> "rec", pid |-> p]
NoClients == [exists |-> FALSE, list |-> <<>>]
ClientList(l) == [exists |-> TRUE, list |-> l]

Includes(l, x) == \E i \in DOMAIN l : l[i] = x
Without(l, x) == SelectSeq(l, LAMBDA y : y # x)

\* runCommand's local variables and the position of each of its async tasks
NewInvocation ==
    [pc |-> "init", disabled |-> FALSE, isWatcher |-> FALSE, state |-> FALSE,
     promotionCheckInterval |-> FALSE, checkInterval |-> FALSE,
     watchers |-> FALSE, child |-> "none", childExited |-> FALSE,
     childExitCode |-> NoCode, isExiting |-> FALSE, signal |-> "none",
     killed |-> <<>>, received |-> 0, hpc |-> "idle", rpc |-> "idle",
     regBuf |-> <<>>, unregBuf |-> <<>>, cleanBuf |-> <<>>,
     exitCode |-> NoCode, exitVia |-> "none"]

Alive(q) == q \in DOMAIN inv /\ inv[q].pc \notin {"init", "exited"}

\* process.kill(pid, 0) succeeds iff the process exists
isProcessRunning(q) == Alive(q)

\* process.exit(code): the event loop, its timers and watchers are gone
ProcessExit(r, code, via) ==
    [NewInvocation EXCEPT !.pc = "exited", !.exitCode = code, !.exitVia = via,
                          !.childExited = r.childExited,
                          !.childExitCode = r.childExitCode]

Set(p, r) == inv' = [inv EXCEPT ![p] = r]

\* code || 0
CodeOrZero(c) == IF c = NoCode THEN 0 ELSE c

\* signal === 'SIGINT' ? 130 : signal === 'SIGTERM' ? 143 : 129
signalExitCode(s) == IF s = "SIGINT" THEN 130 ELSE IF s = "SIGTERM" THEN 143 ELSE 129

\* spawn(fullCommand, [], {shell: true}) and the registration of the handlers;
\* a failed spawn emits 'error' before any timer or I/O callback runs
Spawn(r) ==
    { [r EXCEPT !.pc = "idle", !.child = "running"],
      ProcessExit(r, 1, "spawn_error") }

\* ------------------------------------------------------------ runCommand
\* lines 315-332: up to the call of acquireLock, or straight to spawn
Start(p) ==
    /\ inv[p].pc = "init"
    /\ \E d \in BOOLEAN :
         IF d
         THEN \E r \in Spawn([inv[p] EXCEPT !.disabled = TRUE]) : Set(p, r)
         ELSE Set(p, [inv[p] EXCEPT !.pc = "acq_open"])
    /\ UNCHANGED <<lock, clients, injectedDeps, env, watch, call>>

\* ----------------------------------------------------------- acquireLock
\* acquireLock opening with flag 'w' instead of 'wx': an existing file is truncated
AcqOpenOverwrite(p) ==
    /\ inv[p].pc = "acq_open"
    /\ lock' = EmptyLock(p)
    /\ Set(p, [inv[p] EXCEPT !.pc = "acq_write"])
    /\ UNCHANGED <<clients, injectedDeps, env, watch, call>>

\* open(lockFile, 'wx'): created iff absent; EEXIST returns false
AcqOpen(p) ==
    /\ inv[p].pc = "acq_open"
    /\ IF lock.st = "absent"
       THEN /\ lock' = EmptyLock(p)
            /\ Set(p, [inv[p] EXCEPT !.pc = "acq_write"])
       ELSE /\ lock' = lock
            /\ Set(p, IF inv[p].child = "none"
                      THEN [inv[p] EXCEPT !.pc = "reg_read", !.isWatcher = FALSE]
                      ELSE [inv[p] EXCEPT !.pc = "idle"])
    /\ UNCHANGED <<clients, injectedDeps, env, watch, call>>

\* the write through the descriptor that open returned, then `return true`;
\* the caller sets isWatcher and calls startWatcherMode
AcqWrite(p) ==
    /\ inv[p].pc = "acq_write"
    /\ lock' = IF lock = EmptyLock(p) THEN LockRec(p) ELSE lock
    /\ Set(p, [inv[p] EXCEPT !.pc = "sw_deps", !.isWatcher = TRUE,
                             !.promotionCheckInterval = FALSE])
    /\ UNCHANGED <<clients, injectedDeps, env, watch, call>>

\* ------------------------------------------------------ startWatcherMode
\* getInjectedDepsDirs resolved
SwDeps(p) ==
    /\ inv[p].pc = "sw_deps"
    /\ Set(p, [inv[p] EXCEPT !.pc = IF injectedDeps THEN "sw_reg_read" ELSE "sw_unlink"])
    /\ UNCHANGED <<lock, clients, injectedDeps, env, watch, call>>

\* the failure of startWatcherMode at startup without `isWatcher = false`
SwUnlinkStaysWatcher(p) ==
    /\ inv[p].pc = "sw_unlink"
    /\ lock' = NoLock
    /\ Set(p, [inv[p] EXCEPT !.pc = IF inv[p].child = "none" THEN "reg_read" ELSE "idle"])
    /\ UNCHANGED <<clients, injectedDeps, env, watch, call>>

\* unlink(lockFile), then throw: at startup the caller falls back to client,
\* after a promotion the caller only logs the error
SwUnlink(p) ==
    /\ inv[p].pc = "sw_unlink"
    /\ lock' = NoLock
    /\ Set(p, IF inv[p].child = "none"
              THEN [inv[p] EXCEPT !.pc = "reg_read", !.isWatcher = FALSE]
              ELSE [inv[p] EXCEPT !.pc = "idle"])
    /\ UNCHANGED <<clients, injectedDeps, env, watch, call>>

\* registerClient: the list read (empty when absent), with pid appended
Registered(p) ==
    LET l == IF clients.exists THEN clients.list ELSE <<>>
    IN  IF Includes(l, p) THEN l ELSE Append(l, p)

\* the watchers and the reaper are set up, `state` is returned
WatcherStarted(r) ==
    [r EXCEPT !.watchers = TRUE, !.checkInterval = TRUE, !.state = TRUE]

SwRegRead(p) ==
    /\ inv[p].pc = "sw_reg_read"
    /\ Set(p, IF clients.exists /\ Includes(clients.list, p)
              THEN [inv[p] EXCEPT !.pc = "sw_sync"]
              ELSE [inv[p] EXCEPT !.pc = "sw_reg_write", !.regBuf = Registered(p)])
    /\ UNCHANGED <<lock, clients, injectedDeps, env, watch, call>>

SwRegWrite(p) ==
    /\ inv[p].pc = "sw_reg_write"
    /\ clients' = ClientList(inv[p].regBuf)
    /\ Set(p, [inv[p] EXCEPT !.pc = "sw_sync", !.regBuf = <<>>])
    /\ UNCHANGED <<lock, injectedDeps, env, watch, call>>

\* the initial sync pass is over
SwSync(p) ==
    /\ inv[p].pc = "sw_sync"
    /\ IF inv[p].child = "none"
       THEN \E r \in Spawn(WatcherStarted(inv[p])) : Set(p, r)
       ELSE Set(p, [WatcherStarted(inv[p]) EXCEPT !.pc = "idle"])
    /\ UNCHANGED <<lock, clients, injectedDeps, env, watch, call>>

\* ------------------------------------------- runCommand, the client branch
RegRead(p) ==
    /\ inv[p].pc = "reg_read"
    /\ IF clients.exists /\ Includes(clients.list, p)
       THEN \E r \in Spawn([inv[p] EXCEPT !.promotionCheckInterval = TRUE]) : Set(p, r)
       ELSE Set(p, [inv[p] EXCEPT !.pc = "reg_write", !.regBuf = Registered(p)])
    /\ UNCHANGED <<lock, clients, injectedDeps, env, watch, call>>

RegWrite(p) ==
    /\ inv[p].pc = "reg_write"
    /\ clients' = ClientList(inv[p].regBuf)
    /\ \E r \in Spawn([inv[p] EXCEPT !.promotionCheckInterval = TRUE, !.regBuf = <<>>]) :
         Set(p, r)
    /\ UNCHANGED <<lock, injectedDeps, env, watch, call>>

\* --------------------------------------------------- tryPromoteToWatcher
\* readFile + JSON.parse + isProcessRunning
PromoteAfterRead(r) ==
    IF lock.st = "absent" THEN [r EXCEPT !.pc = "acq_open"]
    ELSE IF lock.st = "empty" THEN [r EXCEPT !.pc = "idle"]
    ELSE IF isProcessRunning(lock.pid) THEN [r EXCEPT !.pc = "idle"]
    ELSE [r EXCEPT !.pc = "p_unlink"]

\* a tick of promotionCheckInterval: tryPromoteToWatcher is called
PromoTick(p) ==
    /\ inv[p].pc = "idle"
    /\ inv[p].promotionCheckInterval
    /\ Set(p, [inv[p] EXCEPT !.pc = "p_read"])
    /\ UNCHANGED <<lock, clients, injectedDeps, env, watch, call>>

PromoRead(p) ==
    /\ inv[p].pc = "p_read"
    /\ Set(p, PromoteAfterRead(inv[p]))
    /\ UNCHANGED <<lock, clients, injectedDeps, env, watch, call>>

\* unlink(lockFile); ENOENT is caught and acquireLock is called as well
PromoUnlink(p) ==
    /\ inv[p].pc = "p_unlink"
    /\ lock' = NoLock
    /\ Set(p, [inv[p] EXCEPT !.pc = "acq_open"])
    /\ UNCHANGED <<clients, injectedDeps, env, watch, call>>

\* ------------------------------------- child 'exit' and signal handlers
\* what follows the teardown (or unregister) of a handler
HandlerDone(r) ==
    IF r.signal # "none"
    THEN [r EXCEPT !.hpc = "armed", !.unregBuf = <<>>]
    ELSE ProcessExit(r, CodeOrZero(r.childExitCode), "child_exit")

\* `if (isWatcher && state)`: timers cleared, watchers closed, then unlink
Teardown(r) ==
    [r EXCEPT !.checkInterval = FALSE, !.watchers = FALSE, !.hpc = "td_lock",
              !.unregBuf = <<>>]

\* lines 405-425, after unregisterClient returned in the 'exit' handler
AfterUnregister(r) ==
    IF r.signal # "none" THEN HandlerDone(r)
    ELSE IF r.isWatcher /\ r.state THEN Teardown(r)
    ELSE HandlerDone(r)

\* the 'exit' handler without its `if (isExiting)` branch
ChildExitUnguarded(p, code) ==
    /\ inv[p].pc \notin {"init", "exited"}
    /\ inv[p].child = "running"
    /\ Set(p, [inv[p] EXCEPT !.child = "exited", !.childExitCode = code,
                             !.childExited = TRUE, !.isExiting = TRUE,
                             !.promotionCheckInterval = FALSE,
                             !.hpc = "unreg_read"])
    /\ UNCHANGED <<lock, clients, injectedDeps, env, watch, call>>

\* child.on('exit')
ChildExit(p, code) ==
    /\ inv[p].pc \notin {"init", "exited"}
    /\ inv[p].child = "running"
    /\ LET r == [inv[p] EXCEPT !.child = "exited", !.childExitCode = code,
                               !.childExited = TRUE]
       IN  Set(p, IF r.isExiting
                  THEN ProcessExit(r, CodeOrZero(code), "exit_after_signal")
                  ELSE [r EXCEPT !.isExiting = TRUE,
                                 !.promotionCheckInterval = FALSE,
                                 !.hpc = "unreg_read"])
    /\ UNCHANGED <<lock, clients, injectedDeps, env, watch, call>>

\* the signal handler without its `if (isExiting) return`
OnSignalUnguarded(r, s) ==
    LET r1 == [r EXCEPT !.isExiting = TRUE, !.signal = s,
                        !.killed = Append(@, s),
                        !.promotionCheckInterval = FALSE]
    IN  IF r1.isWatcher /\ r1.state THEN Teardown(r1)
        ELSE [r1 EXCEPT !.hpc = "unreg_read"]

\* process.on(signal)
OnSignal(r, s) ==
    IF r.isExiting THEN r
    ELSE LET r1 == [r EXCEPT !.isExiting = TRUE, !.signal = s,
                             !.killed = Append(@, s),
                             !.promotionCheckInterval = FALSE]
         IN  IF r1.isWatcher /\ r1.state THEN Teardown(r1)
             ELSE [r1 EXCEPT !.hpc = "unreg_read"]

Signal(p, s) ==
    /\ inv[p].pc \notin {"init", "exited"}
    /\ inv[p].child # "none"
    /\ env.signals > 0
    /\ env' = [env EXCEPT !.signals = @ - 1]
    /\ Set(p, [OnSignal(inv[p], s) EXCEPT !.received = @ + 1])
    /\ UNCHANGED <<lock, clients, injectedDeps, watch, call>>

\* unregisterClient writing the filtered list even when it is empty
UnregisteredNoUnlink(p) ==
    LET l == Without(clients.list, p)
    IN  IF ~clients.exists THEN [op |-> "none", list |-> <<>>]
        ELSE [op |-> "write", list |-> l]

\* unregisterClient on the file as it is read: the operation that follows
\* the read and the list that is returned
Unregistered(p) ==
    LET l == Without(clients.list, p)
    IN  IF ~clients.exists THEN [op |-> "none", list |-> <<>>]
        ELSE IF Len(l) > 0 THEN [op |-> "write", list |-> l]
        ELSE [op |-> "unlink", list |-> l]

UnregRead(p) ==
    /\ inv[p].hpc = "unreg_read"
    /\ LET u == Unregistered(p)
       IN  Set(p, IF u.op = "none" THEN AfterUnregister(inv[p])
                  ELSE IF u.op = "write"
                       THEN [inv[p] EXCEPT !.hpc = "unreg_write", !.unregBuf = u.list]
                       ELSE [inv[p] EXCEPT !.hpc = "unreg_unlink"])
    /\ UNCHANGED <<lock, clients, injectedDeps, env, watch, call>>

UnregWrite(p) ==
    /\ inv[p].hpc = "unreg_write"
    /\ clients' = ClientList(inv[p].unregBuf)
    /\ Set(p, AfterUnregister(inv[p]))
    /\ UNCHANGED <<lock, injectedDeps, env, watch, call>>

UnregUnlink(p) ==
    /\ inv[p].hpc = "unreg_unlink"
    /\ clients' = NoClients
    /\ Set(p, AfterUnregister(inv[p]))
    /\ UNCHANGED <<lock, injectedDeps, env, watch, call>>

\* unlink(lockFile) inside try: ENOENT skips the second unlink
TdLock(p) ==
    /\ inv[p].hpc = "td_lock"
    /\ lock' = NoLock
    /\ Set(p, IF lock.st = "absent" THEN HandlerDone(inv[p])
              ELSE [inv[p] EXCEPT !.hpc = "td_clients"])
    /\ UNCHANGED <<clients, injectedDeps, env, watch, call>>

TdClients(p) ==
    /\ inv[p].hpc = "td_clients"
    /\ clients' = NoClients
    /\ Set(p, HandlerDone(inv[p]))
    /\ UNCHANGED <<lock, injectedDeps, env, watch, call>>

\* the awaited teardown or unregister operation of the signal handler never
\* settles (a hung filesystem)
SignalTeardownStalls(p) ==
    /\ inv[p].signal # "none"
    /\ inv[p].hpc \in {"unreg_read", "unreg_write", "unreg_unlink", "td_lock", "td_clients"}
    /\ Set(p, [inv[p] EXCEPT !.hpc = "stalled", !.unregBuf = <<>>])
    /\ UNCHANGED <<lock, clients, injectedDeps, env, watch, call>>

\* the 5000 ms timer: process.exit(childExitCode ?? signalExitCode)
ForcedExit(p) ==
    /\ inv[p].hpc = "armed"
    /\ Set(p, ProcessExit(inv[p],
                          IF inv[p].childExitCode # NoCode THEN inv[p].childExitCode
                          ELSE signalExitCode(inv[p].signal),
                          "forced"))
    /\ UNCHANGED <<lock, clients, injectedDeps, env, watch, call>>

\* ------------------------------------------- the reaper (checkInterval)
\* clients.filter(isProcessRunning)
AliveClients(l) == SelectSeq(l, isProcessRunning)

\* the reaper callback without `if (!getChildExited()) return`
AfterCleanupAnyChild(r, alive) ==
    IF Len(alive) = 0
    THEN [r EXCEPT !.checkInterval = FALSE, !.watchers = FALSE,
                   !.rpc = "r_td_lock", !.cleanBuf = <<>>]
    ELSE [r EXCEPT !.rpc = "idle", !.cleanBuf = <<>>]

\* lines 290-311, after cleanupStaleClients returned
AfterCleanup(r, alive) ==
    IF ~r.childExited THEN [r EXCEPT !.rpc = "idle", !.cleanBuf = <<>>]
    ELSE IF Len(alive) = 0
         THEN [r EXCEPT !.checkInterval = FALSE, !.watchers = FALSE,
                        !.rpc = "r_td_lock", !.cleanBuf = <<>>]
         ELSE [r EXCEPT !.rpc = "idle", !.cleanBuf = <<>>]

\* a tick of checkInterval: cleanupStaleClients is called
ReaperTick(p) ==
    /\ inv[p].checkInterval
    /\ inv[p].rpc = "idle"
    /\ Set(p, [inv[p] EXCEPT !.rpc = "r_read"])
    /\ UNCHANGED <<lock, clients, injectedDeps, env, watch, call>>

\* cleanupStaleClients that filters and returns but never rewrites the file
CleanedNoRewrite ==
    [op |-> "none",
     list |-> IF clients.exists THEN AliveClients(clients.list) ELSE <<>>]

\* cleanupStaleClients on the file as it is read: the operation that
\* follows the read and the list that is returned
Cleaned ==
    LET alive == AliveClients(clients.list)
    IN  IF ~clients.exists THEN [op |-> "none", list |-> <<>>]
        ELSE IF Len(alive) # Len(clients.list)
             THEN IF Len(alive) > 0 THEN [op |-> "write", list |-> alive]
                  ELSE [op |-> "unlink", list |-> alive]
             ELSE [op |-> "none", list |-> alive]

ReaperRead(p) ==
    /\ inv[p].rpc = "r_read"
    /\ LET c == Cleaned
       IN  Set(p, IF c.op = "write"
                  THEN [inv[p] EXCEPT !.rpc = "r_write", !.cleanBuf = c.list]
                  ELSE IF c.op = "unlink" THEN [inv[p] EXCEPT !.rpc = "r_unlink"]
                  ELSE AfterCleanup(inv[p], c.list))
    /\ UNCHANGED <<lock, clients, injectedDeps, env, watch, call>>

ReaperWrite(p) ==
    /\ inv[p].rpc = "r_write"
    /\ clients' = ClientList(inv[p].cleanBuf)
    /\ Set(p, AfterCleanup(inv[p], inv[p].cleanBuf))
    /\ UNCHANGED <<lock, injectedDeps, env, watch, call>>

ReaperUnlink(p) ==
    /\ inv[p].rpc = "r_unlink"
    /\ clients' = NoClients
    /\ Set(p, AfterCleanup(inv[p], <<>>))
    /\ UNCHANGED <<lock, injectedDeps, env, watch, call>>

ReaperTdLock(p) ==
    /\ inv[p].rpc = "r_td_lock"
    /\ lock' = NoLock
    /\ Set(p, IF lock.st = "absent" THEN ProcessExit(inv[p], 0, "reaper")
              ELSE [inv[p] EXCEPT !.rpc = "r_td_clients"])
    /\ UNCHANGED <<clients, injectedDeps, env, watch, call>>

ReaperTdClients(p) ==
    /\ inv[p].rpc = "r_td_clients"
    /\ clients' = NoClients
    /\ Set(p, ProcessExit(inv[p], 0, "reaper"))
    /\ UNCHANGED <<lock, injectedDeps, env, watch, call>>

\* ------------------------------------------------------- the environment
\* kill -9, or a termination signal before the handlers are installed
Crash(p) ==
    /\ inv[p].pc \notin {"init", "exited"}
    /\ env.crashes > 0
    /\ env' = [env EXCEPT !.crashes = @ - 1]
    /\ Set(p, ProcessExit(inv[p], 137, "killed"))
    /\ UNCHANGED <<lock, clients, injectedDeps, watch, call>>

\* ------------------------------------------------ the registry, call by call
\* the pids a client-list file can hold, and the lists the three functions
\* write: never empty, no pid twice
RegistryPids == {StalePid} \cup Procs
RegistryLists ==
    {l \in UNION {[1..n -> RegistryPids] : n \in 1..Cardinality(RegistryPids)} :
        \A i, j \in DOMAIN l : l[i] = l[j] => i = j}
RegistryStates == {NoClients} \cup {ClientList(l) : l \in RegistryLists}

\* the file after the write or unlink that follows the read
FileAfter(o) ==
    IF o.op = "write" THEN ClientList(o.list)
    ELSE IF o.op = "unlink" THEN NoClients
    ELSE clients

\* the last two calls, with the file each found and the list each returned
Logged(c) == IF Len(call) < 2 THEN Append(call, c) ELSE <<call[2], c>>

\* registerClient(lockFile, p), run to completion
CallRegister(p) ==
    /\ clients' = IF clients.exists /\ Includes(clients.list, p) THEN clients
                  ELSE ClientList(Registered(p))
    /\ call' = Logged([fn |-> "registerClient", pid |-> p, before |-> clients,
                       ret |-> <<>>])
    /\ UNCHANGED <<lock, injectedDeps, inv, env, watch>>

\* unregisterClient(lockFile, p), run to completion
CallUnregister(p) ==
    /\ clients' = FileAfter(Unregistered(p))
    /\ call' = Logged([fn |-> "unregisterClient", pid |-> p, before |-> clients,
                       ret |-> Unregistered(p).list])
    /\ UNCHANGED <<lock, injectedDeps, inv, env, watch>>

\* cleanupStaleClients(lockFile), run to completion (it takes no pid)
CallCleanup ==
    /\ clients' = FileAfter(Cleaned)
    /\ call' = Logged([fn |-> "cleanupStaleClients", pid |-> NoCode,
                       before |-> clients, ret |-> Cleaned.list])
    /\ UNCHANGED <<lock, injectedDeps, inv, env, watch>>

\* ------------------------------------------------ setupWatcher, the debounce
\* `state` of startWatcherMode: the directories watched and the pending
\* debounce timers [dir, file, left]; the other fields record what has
\* happened per entry (dir, file) and per directory
NewWatchState ==
    [watchers |-> {}, debounceTimers |-> {}, events |-> 0,
     n |-> [e \in Entries |-> 0],            \* events reported for the entry
     since |-> [e \in Entries |-> Quiet],    \* ms since its last event
     rapid |-> [e \in Entries |-> TRUE],     \* each came < 100 ms after the last
     spaced |-> [e \in Entries |-> TRUE],    \* each came > 100 ms after the last
     fired |-> [e \in Entries |-> 0],        \* timer callbacks run for the entry
     dirRapid |-> [d \in Dirs |-> TRUE],     \* `rapid`, per directory
     syncCalls |-> [d \in Dirs |-> 0],       \* syncDeps(pkgDir) calls
     lastSync |-> "none"]

Due(t) == t.left <= 0
TimersOf(w, e) == {t \in w.debounceTimers : <<t.dir, t.file>> = e}
DirSince(w, d) ==
    IF \E f \in FileNames : w.since[<<d, f>>] < DebounceMs THEN 0
    ELSE IF \E f \in FileNames : w.since[<<d, f>>] = DebounceMs THEN DebounceMs
    ELSE Quiet
DirEvents(w, d) == \E f \in FileNames : w.n[<<d, f>>] > 0

\* setupWatcher(pkgDir, ..): fs.watch is set up unless the directory has one
SetupWatcher(d) ==
    /\ d \notin watch.watchers
    /\ watch' = [watch EXCEPT !.watchers = @ \cup {d}]
    /\ UNCHANGED <<lock, clients, injectedDeps, inv, env, call>>

\* what the callback of fs.watch records about the event, before it acts
Reported(w, d, f) ==
    LET e == <<d, f>>
    IN  [w EXCEPT !.events = @ + 1,
                  !.n[e] = @ + 1,
                  !.rapid[e] = IF w.n[e] = 0 THEN TRUE
                               ELSE @ /\ w.since[e] < DebounceMs,
                  !.spaced[e] = IF w.n[e] = 0 THEN TRUE
                                ELSE @ /\ w.since[e] > DebounceMs,
                  !.dirRapid[d] = IF ~DirEvents(w, d) THEN TRUE
                                  ELSE @ /\ DirSince(w, d) < DebounceMs,
                  !.since[e] = 0]

\* the callback without clearTimeout: the earlier timer stays pending
FsEventNoClear(d, f) ==
    /\ d \in watch.watchers
    /\ watch.events < MaxEvents
    /\ \A t \in watch.debounceTimers : t.left >= 0
    /\ watch' = IF f = NoName THEN [watch EXCEPT !.events = @ + 1]
                ELSE [Reported(watch, d, f) EXCEPT
                        !.debounceTimers =
                            @ \cup {[dir |-> d, file |-> f, left |-> DebounceMs]}]
    /\ UNCHANGED <<lock, clients, injectedDeps, inv, env, call>>

\* the callback of fs.watch: no filename, nothing; else the timer of
\* `${pkgDir}:${filename}` is cleared and a new one of 100 ms is set
FsEvent(d, f) ==
    /\ d \in watch.watchers
    /\ watch.events < MaxEvents
    /\ \A t \in watch.debounceTimers : t.left >= 0
    /\ watch' = IF f = NoName THEN [watch EXCEPT !.events = @ + 1]
                ELSE [Reported(watch, d, f) EXCEPT
                        !.debounceTimers =
                            (@ \ TimersOf(watch, <<d, f>>))
                            \cup {[dir |-> d, file |-> f, left |-> DebounceMs]}]
    /\ UNCHANGED <<lock, clients, injectedDeps, inv, env, call>>

\* the timer callback that closes the watchers and clears the timers when
\* the sync failed
DebounceFireStops(d, f, ok) ==
    /\ \E t \in TimersOf(watch, <<d, f>>) :
         /\ Due(t)
         /\ watch' = [watch EXCEPT
                        !.debounceTimers = IF ok THEN @ \ {t} ELSE {},
                        !.watchers = IF ok THEN @ ELSE {},
                        !.fired[<<d, f>>] = @ + 1,
                        !.syncCalls[d] = @ + 1,
                        !.lastSync = IF ok THEN "synced" ELSE "failed"]
    /\ UNCHANGED <<lock, clients, injectedDeps, inv, env, call>>

\* the timer callback: the map entry is deleted, syncDeps(pkgDir) is called
\* and logs a failure of syncInjectedDeps
DebounceFire(d, f, ok) ==
    /\ \E t \in TimersOf(watch, <<d, f>>) :
         /\ Due(t)
         /\ watch' = [watch EXCEPT
                        !.debounceTimers = @ \ {t},
                        !.fired[<<d, f>>] = @ + 1,
                        !.syncCalls[d] = @ + 1,
                        !.lastSync = IF ok THEN "synced" ELSE "failed"]
    /\ UNCHANGED <<lock, clients, injectedDeps, inv, env, call>>

\* TickMs pass; a timer that is due runs before the clock moves on
Tick ==
    /\ \A t \in watch.debounceTimers : ~Due(t)
    /\ watch' = [watch EXCEPT
                   !.debounceTimers = {[t EXCEPT !.left = @ - TickMs] :
                                          t \in watch.debounceTimers},
                   !.since = [e \in Entries |->
                                IF @[e] + TickMs > DebounceMs THEN Quiet
                                ELSE @[e] + TickMs]]
    /\ UNCHANGED <<lock, clients, injectedDeps, inv, env, call>>

\* --------------------------------------------------------- specification
\* the workspace is clean, or an earlier leader was killed and left its
\* lock record and its registration behind
Workspace ==
    /\ \E stale \in BOOLEAN :
         /\ lock = IF stale THEN LockRec(StalePid) ELSE NoLock
         /\ clients = IF stale THEN ClientList(<<StalePid>>) ELSE NoClients
    /\ injectedDeps \in BOOLEAN

Init ==
    /\ Workspace
    /\ inv = [p \in Procs |-> NewInvocation]
    /\ env = [signals |-> MaxSignals, crashes |-> MaxCrashes]
    /\ watch = NewWatchState
    /\ call = <<>>

Next ==
    \/ \E p \in DOMAIN inv : Start(p)
    \/ \E p \in DOMAIN inv : AcqOpen(p)
    \/ \E p \in DOMAIN inv : AcqWrite(p)
    \/ \E p \in DOMAIN inv : SwDeps(p)
    \/ \E p \in DOMAIN inv : SwUnlink(p)
    \/ \E p \in DOMAIN inv : SwRegRead(p)
    \/ \E p \in DOMAIN inv : SwRegWrite(p)
    \/ \E p \in DOMAIN inv : SwSync(p)
    \/ \E p \in DOMAIN inv : RegRead(p)
    \/ \E p \in DOMAIN inv : RegWrite(p)
    \/ \E p \in DOMAIN inv : PromoTick(p)
    \/ \E p \in DOMAIN inv : PromoRead(p)
    \/ \E p \in DOMAIN inv : PromoUnlink(p)
    \/ \E p \in DOMAIN inv : UnregRead(p)
    \/ \E p \in DOMAIN inv : UnregWrite(p)
    \/ \E p \in DOMAIN inv : UnregUnlink(p)
    \/ \E p \in DOMAIN inv : TdLock(p)
    \/ \E p \in DOMAIN inv : TdClients(p)
    \/ \E p \in DOMAIN inv : ForcedExit(p)
    \/ \E p \in DOMAIN inv : ReaperTick(p)
    \/ \E p \in DOMAIN inv : ReaperRead(p)
    \/ \E p \in DOMAIN inv : ReaperWrite(p)
    \/ \E p \in DOMAIN inv : ReaperUnlink(p)
    \/ \E p \in DOMAIN inv : ReaperTdLock(p)
    \/ \E p \in DOMAIN inv : ReaperTdClients(p)
    \/ \E p \in DOMAIN inv, c \in ChildCodes : ChildExit(p, c)
    \/ \E p \in DOMAIN inv, s \in Signals : Signal(p, s)
    \/ \E p \in DOMAIN inv : SignalTeardownStalls(p)
    \/ \E p \in DOMAIN inv : Crash(p)

Spec == Init /\ [][Next]_vars

\* every pending callback of a live invocation runs (the event loop); the
\* child, the signals and the kills are the environment's
Fairness(S) ==
    \A p \in S :
        /\ WF_vars(AcqOpen(p)) /\ WF_vars(AcqWrite(p)) /\ WF_vars(SwDeps(p))
        /\ WF_vars(SwUnlink(p)) /\ WF_vars(SwRegRead(p)) /\ WF_vars(SwRegWrite(p))
        /\ WF_vars(SwSync(p)) /\ WF_vars(RegRead(p)) /\ WF_vars(RegWrite(p))
        /\ WF_vars(PromoTick(p)) /\ WF_vars(PromoRead(p)) /\ WF_vars(PromoUnlink(p))
        /\ WF_vars(UnregRead(p)) /\ WF_vars(UnregWrite(p)) /\ WF_vars(UnregUnlink(p))
        /\ WF_vars(TdLock(p)) /\ WF_vars(TdClients(p)) /\ WF_vars(ForcedExit(p))
        /\ WF_vars(ReaperTick(p)) /\ WF_vars(ReaperRead(p)) /\ WF_vars(ReaperWrite(p))
        /\ WF_vars(ReaperUnlink(p))
        /\ WF_vars(ReaperTdLock(p)) /\ WF_vars(ReaperTdClients(p))

FairSpec == Spec /\ Fairness(Procs)

\* one invocation in the workspace, with every signal it may receive
InitSolo ==
    /\ Workspace
    /\ inv = [p \in SoloProcs |-> NewInvocation]
    /\ env = [signals |-> SoloSignals, crashes |-> MaxCrashes]
    /\ watch = NewWatchState
    /\ call = <<>>

SpecSolo == InitSolo /\ [][Next]_vars

FairSolo == SpecSolo /\ Fairness(SoloProcs)

\* invocations that have all called acquireLock (line 332) on a workspace
\* without a lock file, and nothing else running
InitAcquire ==
    /\ lock = NoLock
    /\ clients = NoClients
    /\ injectedDeps = TRUE
    /\ inv = [p \in Contenders |-> [NewInvocation EXCEPT !.pc = "acq_open"]]
    /\ env = [signals |-> 0, crashes |-> 0]
    /\ watch = NewWatchState
    /\ call = <<>>

NextAcquire ==
    \/ \E p \in DOMAIN inv : AcqOpen(p)
    \/ \E p \in DOMAIN inv : AcqWrite(p)

SpecAcquire == InitAcquire /\ [][NextAcquire]_vars

\* the three registry functions applied one call at a time to every file
\* they can have written, with every set of the invocations alive
InitRegistry ==
    /\ lock = NoLock
    /\ clients \in RegistryStates
    /\ injectedDeps = TRUE
    /\ inv \in [Procs -> {[NewInvocation EXCEPT !.pc = "idle", !.child = "running"],
                          ProcessExit(NewInvocation, 137, "killed")}]
    /\ env = [signals |-> 0, crashes |-> 0]
    /\ watch = NewWatchState
    /\ call = <<>>

NextRegistry ==
    \/ \E p \in RegistryPids : CallRegister(p)
    \/ \E p \in RegistryPids : CallUnregister(p)
    \/ CallCleanup

SpecRegistry == InitRegistry /\ [][NextRegistry]_vars

\* the watcher runtime of a Leader, from the creation of `state` on
InitWatch ==
    /\ lock = LockRec(1)
    /\ clients = ClientList(<<1>>)
    /\ injectedDeps = TRUE
    /\ inv = [p \in SoloProcs |->
                [NewInvocation EXCEPT !.pc = "sw_sync", !.isWatcher = TRUE]]
    /\ env = [signals |-> 0, crashes |-> 0]
    /\ watch = NewWatchState
    /\ call = <<>>

NextWatch ==
    \/ \E d \in Dirs : SetupWatcher(d)
    \/ \E d \in Dirs, f \in FileNames \cup {NoName} : FsEvent(d, f)
    \/ \E d \in Dirs, f \in FileNames, ok \in BOOLEAN : DebounceFire(d, f, ok)
    \/ Tick

SpecWatch == InitWatch /\ [][NextWatch]_vars

\* ================================================================ claims
IsLeader(p) ==
    Alive(p) /\ inv[p].isWatcher /\ inv[p].watchers /\ inv[p].checkInterval

IsRegistered(p) == clients.exists /\ Includes(clients.list, p)

OwnsLock(p) == lock.st # "absent" /\ lock.pid = p

InAcquire(p) == inv[p].pc \in {"acq_open", "acq_write"}

\* C1: of the invocations that call acquireLock concurrently on a workspace
\* without a lock file, at most one has got `true`, and once all calls have
\* returned exactly one has; the lock record then names that one.
C1_ExactlyOneAcquires ==
    LET won == {p \in DOMAIN inv : inv[p].isWatcher}
    IN  /\ Cardinality(won) <= 1
        /\ \A p \in won : lock = LockRec(p)
        /\ (\A p \in DOMAIN inv : ~InAcquire(p)) => Cardinality(won) = 1

C1_AllCallsReturned ==
    /\ \A p \in DOMAIN inv : ~InAcquire(p)
    /\ \E p, q \in DOMAIN inv : inv[p].isWatcher /\ ~inv[q].isWatcher

\* C2: at most one live invocation is Leader (isWatcher, running the
\* directory watchers and the reaper).
C2_AtMostOneLeader ==
    Cardinality({p \in DOMAIN inv : IsLeader(p)}) <= 1

\* C3: when the promotion attempt of a client succeeds, it succeeds for
\* exactly one of the waiting clients: no other live invocation is Leader.
C3_PromotionForExactlyOne ==
    [][\A p \in DOMAIN inv :
         (inv[p].pc = "acq_write" /\ inv[p].child # "none" /\ inv'[p].isWatcher)
         => \A q \in DOMAIN inv \ {p} : ~IsLeader(q)']_vars

\* C4: a Leader whose own child has exited keeps its watchers, its reaper
\* and the lock record while another client is alive and registered.
C4_LeaderOutlivesItsChild ==
    \A p \in DOMAIN inv :
        ( /\ Alive(p) /\ inv[p].isWatcher /\ inv[p].state /\ inv[p].childExited
          /\ \E q \in DOMAIN inv \ {p} : Alive(q) /\ IsRegistered(q) )
        => (inv[p].watchers /\ inv[p].checkInterval /\ lock = LockRec(p))

\* C5: an invocation that terminates by process.exit after its child
\* reported exit code c terminates with c (0 for no code); it terminates
\* with 130, 143 or 129 only forced, after SIGINT, SIGTERM or SIGHUP, before
\* the child reported.
C5_ExitCodePreserved ==
    [][\A p \in DOMAIN inv :
         ( /\ inv[p].pc # "exited" /\ inv'[p].pc = "exited"
           /\ inv'[p].exitVia \notin {"killed", "spawn_error"} )
         => /\ inv'[p].childExited
                => inv'[p].exitCode = CodeOrZero(inv'[p].childExitCode)
            /\ inv'[p].exitCode \in {129, 130, 143}
                => /\ ~inv'[p].childExited
                   /\ inv[p].signal \in Signals
                   /\ inv'[p].exitCode = signalExitCode(inv[p].signal)]_vars

\* C6: the first signal an invocation receives while not exiting is
\* forwarded to the child as that signal, once; any signal received while
\* exiting changes nothing (nothing is forwarded, no handler body runs).
C6_SignalForwardedOnce ==
    [][\A p \in DOMAIN inv :
         /\ inv'[p].received = inv[p].received + 1
              => IF inv[p].isExiting
                 THEN inv'[p] = [inv[p] EXCEPT !.received = @ + 1]
                 ELSE /\ inv'[p].isExiting
                      /\ inv'[p].signal \in Signals
                      /\ inv'[p].killed = <<inv'[p].signal>>
         /\ inv'[p].received = inv[p].received
              => inv'[p].killed = inv[p].killed \/ inv'[p].pc = "exited"
         /\ Len(inv'[p].killed) <= 1]_vars

C6_LaterSignalIgnored ==
    \E p \in DOMAIN inv :
        inv[p].received = 2 /\ Len(inv[p].killed) = 1 /\ inv[p].hpc = "armed"

\* C7: an invocation that has received a termination signal eventually
\* terminates, also when its child never exits and the teardown stalls.
C7_SignalledTerminates ==
    \A p \in SoloProcs : (inv[p].received > 0) ~> (inv[p].pc = "exited")

\* C8: no step of an invocation that runs with the disable flag set
\* creates, writes or deletes the lock file or the client-list file.
C8_DisabledTouchesNoFile ==
    [][\A p \in DOMAIN inv :
         (inv[p].disabled /\ inv'[p] # inv[p]) => UNCHANGED <<lock, clients>>]_vars

\* C9: after a failed spawn the invocation has exited with code 1, no lock
\* record names it as owner and the ClientSet does not contain it.
C9_SpawnFailureLeavesNothing ==
    \A p \in DOMAIN inv :
        inv[p].exitVia = "spawn_error"
        => (inv[p].exitCode = 1 /\ ~OwnsLock(p) /\ ~IsRegistered(p))

\* C10: an unparsable lock file does not persist while a client runs its
\* promotion check: the client removes it and a client becomes Leader.
UnparsableLock == lock.st = "empty"
ClientWaiting == \E p \in Procs : Alive(p) /\ inv[p].promotionCheckInterval

C10_UnparsableLockRecovered ==
    (UnparsableLock /\ ClientWaiting) ~> (~UnparsableLock \/ ~ClientWaiting)

\* ------------------------------------------------------------- registry
RoundTrip ==
    /\ Len(call) = 2
    /\ call[1].fn = "registerClient" /\ call[2].fn = "unregisterClient"
    /\ call[1].pid = call[2].pid

LastMemberLeft ==
    /\ Len(call) > 0
    /\ call[Len(call)].fn = "unregisterClient"
    /\ call[Len(call)].before = ClientList(<<call[Len(call)].pid>>)

\* C11 as stated: registerClient(p) directly followed by unregisterClient(p)
\* leaves the client-list file as it was before the two calls, for every
\* file and every p; unregistering the only member deletes the file and
\* returns the empty list.
C11_RoundTripAnyRegistry ==
    /\ RoundTrip => clients = call[1].before
    /\ LastMemberLeft => (clients = NoClients /\ call[Len(call)].ret = <<>>)

\* C11: registerClient(p) directly followed by unregisterClient(p) leaves
\* the client-list file as it was before the two calls whenever p was not
\* listed before them (if it was, p is removed); unregistering the only
\* member deletes the file and returns the empty list.
C11_RoundTripOfNewMember ==
    /\ (RoundTrip /\ ~Includes(call[1].before.list, call[1].pid))
         => clients = call[1].before
    /\ (RoundTrip /\ Includes(call[1].before.list, call[1].pid))
         => /\ clients.list = Without(call[1].before.list, call[1].pid)
            /\ clients.exists = (clients.list # <<>>)
    /\ LastMemberLeft => (clients = NoClients /\ call[Len(call)].ret = <<>>)

C11_NewMemberCameAndWent ==
    /\ RoundTrip
    /\ call[1].before.exists /\ ~Includes(call[1].before.list, call[1].pid)
    /\ call[2].before.list = Append(call[1].before.list, call[1].pid)
    /\ clients = call[1].before

PositionIn(l, x) == CHOOSE i \in DOMAIN l : l[i] = x

\* C12: cleanupStaleClients returns the members of the file that are alive,
\* each once, in the order of the file, and nothing else; afterwards the
\* file holds exactly the returned list, and is deleted when that is empty.
C12_CleanupYieldsAliveSubset ==
    (Len(call) > 0 /\ call[Len(call)].fn = "cleanupStaleClients")
    => LET was == call[Len(call)].before.list
           ret == call[Len(call)].ret
       IN  /\ \A i \in DOMAIN ret : isProcessRunning(ret[i]) /\ Includes(was, ret[i])
           /\ \A i \in DOMAIN was : isProcessRunning(was[i]) => Includes(ret, was[i])
           /\ \A i, j \in DOMAIN ret :
                 i < j => PositionIn(was, ret[i]) < PositionIn(was, ret[j])
           /\ clients = IF ret = <<>> THEN NoClients ELSE ClientList(ret)

C12_MixedListPruned ==
    /\ Len(call) > 0 /\ call[Len(call)].fn = "cleanupStaleClients"
    /\ Len(call[Len(call)].ret) = 2
    /\ Len(call[Len(call)].before.list) = 3
    /\ call[Len(call)].before.list[2] = StalePid
    /\ clients.list = call[Len(call)].ret

\* ------------------------------------------------------------- debounce
\* every timer that is due has run
Settled == \A t \in watch.debounceTimers : ~Due(t)

RECURSIVE FiredIn(_, _)
FiredIn(d, fs) ==
    IF fs = {} THEN 0
    ELSE LET f == CHOOSE x \in fs : TRUE
         IN  watch.fired[<<d, f>>] + FiredIn(d, fs \ {f})

\* C13 as stated: change events for one directory that each came less than
\* 100 ms after the previous one have produced, once more than 100 ms have
\* passed since the last, exactly one syncDeps call for that directory;
\* events of an entry that came more than 100 ms apart one call each.
C13_OneCallPerDirectoryBurst ==
    /\ \A d \in Dirs :
         ( /\ DirEvents(watch, d) /\ watch.dirRapid[d]
           /\ DirSince(watch, d) = Quiet /\ Settled )
         => watch.syncCalls[d] = 1
    /\ \A e \in Entries :
         (watch.spaced[e] /\ watch.since[e] = Quiet /\ Settled)
         => watch.fired[e] = watch.n[e]

\* C13: change events for one file name of one directory that each came
\* less than 100 ms after the previous one produce exactly one syncDeps call
\* for that directory: none before, and one once more than 100 ms have
\* passed since the last; events of that entry that came more than 100 ms
\* apart produce one call each.  Every syncDeps call of a directory is the
\* call of one of its entries.
C13_OneCallPerEntryBurst ==
    /\ \A e \in Entries :
         /\ watch.rapid[e] => watch.fired[e] <= 1
         /\ ( /\ watch.n[e] > 0 /\ watch.rapid[e]
              /\ watch.since[e] = Quiet /\ Settled )
            => watch.fired[e] = 1
         /\ (watch.spaced[e] /\ watch.since[e] = Quiet /\ Settled)
            => watch.fired[e] = watch.n[e]
    /\ \A d \in Dirs : watch.syncCalls[d] = FiredIn(d, FileNames)

C13_BurstSyncedOnce ==
    \E e \in Entries :
        /\ watch.n[e] = MaxEvents /\ watch.rapid[e]
        /\ watch.since[e] = Quiet /\ watch.fired[e] = 1

\* ------------------------------------------------------------- teardown
\* the body of the signal handler runs (it did more than return)
SignalHandlerRuns(p) ==
    /\ inv'[p].received = inv[p].received + 1
    /\ inv'[p] # [inv[p] EXCEPT !.received = @ + 1]

\* the 'exit' handler goes on to unregister and tear down
ExitHandlerRuns(p) ==
    /\ inv[p].child = "running"
    /\ inv'[p].child = "exited"

C15_LiveOwnersRecordKept ==
    [][(lock.st = "rec" /\ Alive(lock.pid) /\ lock' # lock)
         => inv'[lock.pid] # inv[lock.pid]]_vars

\* --------------------------------------------------------------- reaper
ReaperShutdown(p) == inv[p].rpc \in {"r_td_lock", "r_td_clients"}

\* C16: the reaper shuts down (timers cleared, watchers closed, files
\* deleted, exit 0) only in an invocation whose own child has exited; while
\* the child runs a tick changes nothing of the invocation but the
\* position of the reaper, whatever list cleanupStaleClients returned.
C16_NoShutdownWhileChildRuns ==
    /\ [](\A p \in DOMAIN inv :
            (ReaperShutdown(p) \/ inv[p].exitVia = "reaper") => inv[p].childExited)
    /\ [][\A p \in DOMAIN inv :
            ( /\ inv[p].rpc \in {"r_read", "r_write", "r_unlink"}
              /\ inv'[p].rpc # inv[p].rpc /\ inv'[p].pc # "exited"
              /\ ~inv[p].childExited )
            => \E c \in {<<>>, inv'[p].cleanBuf} :
                 inv'[p] = [inv[p] EXCEPT !.rpc = inv'[p].rpc, !.cleanBuf = c]]_vars

C16_EmptyListChildRunning ==
    \E p \in DOMAIN inv :
        /\ inv[p].checkInterval /\ inv[p].watchers /\ inv[p].rpc = "idle"
        /\ ~inv[p].childExited /\ inv[p].child = "running"
        /\ ~clients.exists /\ lock = LockRec(p)

\* ------------------------------------------------------ failed start-up
\* startWatcherMode, called at startup, found nothing to watch
StartupFailed(p) == inv[p].pc = "sw_unlink" /\ inv[p].child = "none"

\* the client branch that follows is completed: the child is spawned
StartupDone(p) ==
    /\ inv[p].pc \in {"reg_read", "reg_write"}
    /\ inv'[p].pc = "idle"

\* C17: an invocation that acquired the lock at startup and whose
\* startWatcherMode found nothing to watch deletes the lock file, is not
\* Leader (isWatcher false, no watcher, no reaper) and goes on as a client:
\* when its startup is over it is in the client list and its promotion
\* check is running.
C17_FailedStartFallsBackToClient ==
    [][\A p \in DOMAIN inv :
         /\ (StartupFailed(p) /\ inv'[p] # inv[p] /\ inv'[p].pc # "exited")
              => /\ lock' = NoLock
                 /\ inv'[p].pc = "reg_read" /\ ~inv'[p].isWatcher
         /\ (~injectedDeps /\ StartupDone(p))
              => /\ IsRegistered(p)' /\ inv'[p].promotionCheckInterval
                 /\ ~inv'[p].isWatcher /\ ~IsLeader(p)'
                 /\ inv'[p].child = "running"]_vars

C17_FellBackToClient ==
    \E p \in DOMAIN inv :
        /\ ~injectedDeps /\ lock = NoLock /\ clients = ClientList(<<p>>)
        /\ inv[p].pc = "idle" /\ inv[p].child = "running"
        /\ inv[p].promotionCheckInterval /\ ~inv[p].isWatcher

\* ----------------------------------------------------------- registration
\* p has registered (its startup is over) and has not begun to leave
Registrant(p) ==
    /\ Alive(p) /\ inv[p].child = "running"
    /\ ~inv[p].disabled /\ ~inv[p].isExiting

\* C18: a registration that was dropped from the client list (a lost
\* update) is restored: an invocation that has registered, is alive and has
\* not begun to leave, and is missing from the list, is eventually in the
\* list again (or has exited or begun to leave).
C18_DroppedRegistrationRestored ==
    \A p \in Procs :
        (Registrant(p) /\ ~IsRegistered(p)) ~> (IsRegistered(p) \/ ~Registrant(p))

\* -------------------------------------------------------- after teardown
\* the signal handler has run its teardown (or unregister) and armed the
\* forced-exit timer; the other teardowns end in process.exit
TornDown(p) == Alive(p) /\ inv[p].hpc = "armed"

\* C19: an invocation whose teardown has run has no open watcher, no reaper
\* timer and no promotion-check timer, and gets none afterwards, also when
\* a promotion check was in flight during the teardown.
C19_NothingLeftAfterTeardown ==
    \A p \in DOMAIN inv :
        TornDown(p)
        => /\ ~inv[p].watchers /\ ~inv[p].checkInterval
           /\ ~inv[p].promotionCheckInterval

\* ------------------------------------------------- debounce, entry by entry
EventFor(e) == watch'.n[e] = watch.n[e] + 1
CallFor(e) == watch'.fired[e] = watch.fired[e] + 1
OthersKept(e) ==
    /\ watch'.watchers = watch.watchers
    /\ \A o \in Entries \ {e} :
         /\ TimersOf(watch', o) = TimersOf(watch, o)
         /\ watch'.fired[o] = watch.fired[o]

\* C20: the debounce is per (directory, file name).  An event for an entry
\* makes no syncDeps call and leaves exactly one timer of 100 ms pending for
\* the entry; the call is made when no event for the entry has come for
\* 100 ms, once for that timer; an event for another entry leaves the
\* entry's pending timer as it is; a syncDeps call, failed or not, leaves
\* the watchers and the timers of the other entries in place.
C20_DebouncePerEntry ==
    /\ [](\A e \in Entries : Cardinality(TimersOf(watch, e)) <= 1)
    /\ [][\A e \in Entries :
            /\ EventFor(e)
                 => /\ TimersOf(watch', e)
                         = {[dir |-> e[1], file |-> e[2], left |-> DebounceMs]}
                    /\ watch'.fired[e] = watch.fired[e]
                    /\ OthersKept(e)
            /\ CallFor(e)
                 => /\ watch.since[e] >= DebounceMs
                    /\ TimersOf(watch, e) # {} /\ TimersOf(watch', e) = {}
                    /\ watch'.syncCalls[e[1]] = watch.syncCalls[e[1]] + 1
                    /\ OthersKept(e)
            /\ (~EventFor(e) /\ ~CallFor(e))
                 => watch'.fired[e] = watch.fired[e]]_vars

C20_FailedSyncOthersPending ==
    \E e \in Entries, t \in watch.debounceTimers :
        /\ watch.lastSync = "failed" /\ watch.fired[e] > 0
        /\ watch.since[e] = DebounceMs
        /\ <<t.dir, t.file>> # e /\ t.left < DebounceMs /\ ~Due(t)
        /\ t.dir \in watch.watchers

\* ------------------------------------------------------------ leadership
\* p takes itself for the Leader: isWatcher is set, the promotion check is
\* cancelled, no start of the watcher runtime is in progress, no handler ran
SelfDeclaredLeader(p) ==
    /\ Alive(p) /\ inv[p].pc = "idle"
    /\ inv[p].isWatcher /\ ~inv[p].promotionCheckInterval
    /\ ~inv[p].isExiting

\* C21: for an invocation that is not exiting and takes itself for the
\* Leader, the lock record names it as owner and its watchers and its reaper
\* are running, also after a promotion whose startWatcherMode failed.
C21_LeaderHoldsLockAndRuntime ==
    \A p \in DOMAIN inv :
        SelfDeclaredLeader(p)
        => (lock = LockRec(p) /\ inv[p].watchers /\ inv[p].checkInterval)

\* ---------------------------------------------------------- termination
\* p ends through its 'exit' handler, or after a signal (the child's exit
\* or the forced-exit timer)
ExitsByHandler(p) ==
    /\ inv[p].pc # "exited" /\ inv'[p].pc = "exited"
    /\ inv'[p].exitVia \in {"child_exit", "exit_after_signal", "forced"}

\* C22: when an invocation terminates through its child-exit or signal
\* path, no lock record names it as owner and the client list does not
\* contain it.
C22_NothingLeftBehind ==
    [][\A p \in DOMAIN inv :
         ExitsByHandler(p) => (~OwnsLock(p)' /\ ~IsRegistered(p)')]_vars

====
